---- MODULE Spec2Model ----
(***************************************************************************)
(* Model of repro-get: the fetch orchestrator (pkg/downloader), the        *)
(* installed-package snapshot of the debian and alpine distro drivers, and *)
(* the debian hash generator.                                              *)
(*                                                                         *)
(* File names, digests, providers, packages and versions are small         *)
(* naturals.  A file name n stands for the n-th name in lexicographic      *)
(* order, so sort.Strings is a sort by <.  A Go pointer or map that may be *)
(* nil is a sequence: <<>> is nil, <<v>> is a non-nil value v.             *)
(***************************************************************************)
EXTENDS Integers, Sequences, FiniteSets, TLC

\* ---------------------------------------------------------------- bounds
MaxFiles == 2

MaxProviders == 2

MaxLines == 2

MaxParagraphs == 2

MaxCalls == 3

\* sha256 digests and package versions the inputs are drawn from
Digests == {1, 2}

Versions == {1, 2}

\* ------------------------------------------------------------- data types
\* dpkgutil.Dpkg / apkutil.APK values for the single package the model
\* tracks per architecture; version 1..MaxVersion.
Archs == {"amd64"}

Nil == <<>>

DpkgIds == [Package : {1}, Version : Versions, Architecture : Archs]

APKIds == [Package : {1}, Version : Versions]

\* filespec.FileSpec: Name (the map key), SHA256, and the optional
\* distro-specific identities Dpkg and APK (nil or a pointer).
FileSpecOf(name, sha, dpkg, apk) ==
    [Name |-> name, SHA256 |-> sha, Dpkg |-> dpkg, APK |-> apk]

\* ------------------------------------------------------------ driver info
DistroNames == {"none", "debian", "ubuntu", "alpine"}

\* Default provider templates of each driver, as provider ids 101, 102, ...
DefaultProviders(name) ==
    CASE name = "debian" -> <<101, 102, 103>>
      [] name = "ubuntu" -> <<104, 105>>
      [] name = "alpine" -> <<106>>
      [] OTHER -> <<>>

\* ------------------------------------------------- installed-package data
\* One line of the enumerator's output (dpkg-query -W / apk info -v):
\* a well-formed record, a line the parser rejects, or the point where
\* the scanner stops with a read error (sc.Err() # nil).
PkgLines ==
    [kind : {"pkg"}, Package : {1}, Version : Versions, Architecture : Archs]

BadLine == [kind |-> "malformed", Package |-> 0, Version |-> 0, Architecture |-> ""]

IOErrLine == [kind |-> "ioerr", Package |-> 0, Version |-> 0, Architecture |-> ""]

Lines == PkgLines \cup {BadLine, IOErrLine}

\* Go map assignment m[k] = v.
MapPut(m, k, v) == [x \in (DOMAIN m) \cup {k} |-> IF x = k THEN v ELSE m[x]]

EmptyMap == [x \in {} |-> 0]

\* debian: the map key is Package + ":" + Architecture (if Architecture # "").
DpkgKey(pkg, arch) == <<pkg, arch>>

\* debian installed(r): returns the packages read so far together with the
\* error on a malformed line and on a scanner error.
RECURSIVE debian_installed(_, _, _)
debian_installed(lines, n, pkgs) ==
    IF n > Len(lines)
    THEN [m |-> <<pkgs>>, err |-> FALSE]
    ELSE IF lines[n].kind = "ioerr"
    THEN [m |-> <<pkgs>>, err |-> TRUE]
    ELSE IF lines[n].kind = "malformed"
    THEN [m |-> <<pkgs>>, err |-> TRUE]
    ELSE debian_installed(lines, n + 1,
            MapPut(pkgs, DpkgKey(lines[n].Package, lines[n].Architecture),
                   [Package |-> lines[n].Package, Version |-> lines[n].Version,
                    Architecture |-> lines[n].Architecture]))

\* alpine installed(r): returns nil on a line that apkutil.Split rejects,
\* and the packages read so far on a scanner error.
RECURSIVE alpine_installed(_, _, _)
alpine_installed(lines, n, pkgs) ==
    IF n > Len(lines)
    THEN [m |-> <<pkgs>>, err |-> FALSE]
    ELSE IF lines[n].kind = "ioerr"
    THEN [m |-> <<pkgs>>, err |-> TRUE]
    ELSE IF lines[n].kind = "malformed"
    THEN [m |-> Nil, err |-> TRUE]
    ELSE alpine_installed(lines, n + 1,
            MapPut(pkgs, lines[n].Package,
                   [Package |-> lines[n].Package, Version |-> lines[n].Version]))

\* The command could not be started (StdoutPipe or Start failed).
StartFailure == [m |-> Nil, err |-> TRUE]

\* debian Installed(): the possible results when the enumerator would
\* print `out`.
DebianInstalled(out) == {StartFailure, debian_installed(out, 1, EmptyMap)}

\* alpine Installed().
AlpineInstalled(out) == {StartFailure, alpine_installed(out, 1, EmptyMap)}

\* Result of one IsPackageVersionInstalled call: the returned (bool, error)
\* with "" for a nil error, the new value of d.installed, and whether
\* Installed() was run.
IsInstalledResult(inst, ret, err, enumerated) ==
    [installed |-> inst, ret |-> ret, err |-> err, enumerated |-> enumerated]

\* debian: the lookup at the end of IsPackageVersionInstalled.
DebianLookup(m, dpkg) ==
    LET k == DpkgKey(dpkg.Package, dpkg.Architecture)
    IN  IF k \notin DOMAIN m THEN FALSE ELSE m[k].Version = dpkg.Version

\* Faulty variant: an empty snapshot is enumerated again.
NeedsEnumerationWhenEmpty(inst) == inst = Nil \/ inst = <<EmptyMap>>

\* Whether the enumeration has to be run: d.installed == nil.
NeedsEnumeration(inst) == inst = Nil

\* Faulty variant: a spec without dpkg identity is reported as not
\* installed, without error.
DebianIsPackageVersionInstalledSilent(inst, sp, out) ==
    IF sp.Dpkg = Nil
    THEN {IsInstalledResult(inst, FALSE, "", FALSE)}
    ELSE IF NeedsEnumeration(inst)
    THEN {IF r.err
          THEN IsInstalledResult(r.m, FALSE, "failed to detect installed dpkgs", TRUE)
          ELSE IsInstalledResult(r.m, DebianLookup(r.m[1], sp.Dpkg[1]), "", TRUE)
          : r \in DebianInstalled(out)}
    ELSE {IsInstalledResult(inst, DebianLookup(inst[1], sp.Dpkg[1]), "", FALSE)}

DebianIsPackageVersionInstalled(inst, sp, out) ==
    IF sp.Dpkg = Nil
    THEN {IsInstalledResult(inst, FALSE, "dpkg information not available", FALSE)}
    ELSE IF NeedsEnumeration(inst)
    THEN {IF r.err
          THEN IsInstalledResult(r.m, FALSE, "failed to detect installed dpkgs", TRUE)
          ELSE IsInstalledResult(r.m, DebianLookup(r.m[1], sp.Dpkg[1]), "", TRUE)
          : r \in DebianInstalled(out)}
    ELSE {IsInstalledResult(inst, DebianLookup(inst[1], sp.Dpkg[1]), "", FALSE)}

AlpineLookup(m, apk) ==
    IF apk.Package \notin DOMAIN m THEN FALSE ELSE m[apk.Package].Version = apk.Version

AlpineIsPackageVersionInstalled(inst, sp, out) ==
    IF sp.APK = Nil
    THEN {IsInstalledResult(inst, FALSE, "apk information not available", FALSE)}
    ELSE IF NeedsEnumeration(inst)
    THEN {IF r.err
          THEN IsInstalledResult(r.m, FALSE, "failed to detect installed apks", TRUE)
          ELSE IsInstalledResult(r.m, AlpineLookup(r.m[1], sp.APK[1]), "", TRUE)
          : r \in AlpineInstalled(out)}
    ELSE {IsInstalledResult(inst, AlpineLookup(inst[1], sp.APK[1]), "", FALSE)}

\* none: always (false, nil).
NoneIsPackageVersionInstalled(inst, sp, out) ==
    {IsInstalledResult(inst, FALSE, "", FALSE)}

\* distro.Distro.IsPackageVersionInstalled, dispatched on the driver.
IsPackageVersionInstalled(name, inst, sp, out) ==
    CASE name \in {"debian", "ubuntu"} -> DebianIsPackageVersionInstalled(inst, sp, out)
      [] name = "alpine" -> AlpineIsPackageVersionInstalled(inst, sp, out)
      [] OTHER -> NoneIsPackageVersionInstalled(inst, sp, out)

\* --------------------------------------------------------- content cache
\* cache.Cached(digest): (bool, error); the check fails only on a local
\* I/O error.
Cached(blobs, digest) ==
    {[cached |-> digest \in blobs, err |-> FALSE], [cached |-> FALSE, err |-> TRUE]}

\* cache.Ensure(url, digest): nothing to do when the digest is cached;
\* otherwise the fetch succeeds and commits the blob, or fails (digest
\* mismatch, transport error) and commits nothing.
Ensure(blobs, u, digest) ==
    IF digest \in blobs
    THEN {[blobs |-> blobs, err |-> ""]}
    ELSE {[blobs |-> blobs \cup {digest}, err |-> ""],
          [blobs |-> blobs, err |-> "DigestMismatch"],
          [blobs |-> blobs, err |-> "FetchFailed"]}

\* filespec.FileSpec.URL(provider): the resolved URL, or an error when the
\* provider template cannot be resolved for the spec.
URL(sp, provider) ==
    {[u |-> <<provider, sp.Name>>, err |-> FALSE], [u |-> Nil, err |-> TRUE]}

\* ------------------------------------------------------------- Download
VARIABLES
    distro,      \* d: the driver's name, "nil" for d == nil
    dInstalled,  \* d.installed: nil or the snapshot map
    enumRuns,    \* number of times Installed() has been run on d
    cache,       \* the cache: nil or <<set of digests with a blob>>
    names,       \* the keys of the fileSpecs argument
    opts,        \* Opts: Providers, SkipInstalled
    pc,          \* position in Download
    providers,   \* local: the provider list in effect
    fnames,      \* local: the sorted keys
    i,           \* loop index into fnames (from 1)
    j,           \* loop index into providers (from 1)
    sp,          \* local: the current file spec, fileSpecs[fname]
    u,           \* local: the URL resolved for the current provider
    res,         \* res.PackagesToBeInstalled
    retRes,      \* returned *Result: nil or <<list>>
    retErr,      \* returned error: nil or <<error>>
    touched,     \* observed: the keys for which an external call was made
    skipped,     \* observed: the keys skipped as already installed
    ops,         \* observed: the external calls made for the spec sp
    tried,       \* observed: the Ensure calls made for the spec sp
    nEnsure,     \* observed: number of Ensure calls made by Download
    emitted,     \* observed: the provider mentions printed, logged or
                 \* returned by the last step
    calls,       \* driver calls: number of IsPackageVersionInstalled calls
    lastCall,    \* driver calls: the result of the last call
    paragraphs,  \* generateHash: the paragraphs of the package index
    pos,         \* generateHash: index of the next paragraph (from 1)
    seen,        \* generateHash: the seen map, key -> version
    manifest,    \* generateHash: the (digest, filename) entries written
    genRet       \* generateHash: "" while running, then "ok" or "error"

dlVars == <<cache, names, opts, pc, providers, fnames, i, j, sp, u, res,
            retRes, retErr, touched, skipped, ops, tried, nEnsure, emitted>>

drvVars == <<distro, dInstalled, enumRuns>>

callVars == <<calls, lastCall>>

genVars == <<paragraphs, pos, seen, manifest, genRet>>

\* ----------------------------------------- state of the other operations
VARIABLES
    oldSums,     \* hashGenerateAction: nil (no --dedupe) or the prior manifest
    entries,     \* the hw calls the driver's GenerateHash makes, in order
    hpos,        \* number of hw calls made
    written,     \* what the hash writer has written
    hgRet        \* what hashGenerateAction returned: "", "ok" or "error"

hgVars == <<oldSums, entries, hpos, written, hgRet>>

IdleHashGenerate ==
    /\ oldSums = Nil
    /\ entries = <<>>
    /\ hpos = 0
    /\ written = <<>>
    /\ hgRet = ""

VARIABLES
    noneCalls,   \* number of calls made on the none driver
    noneLast     \* the last call on the none driver and what it returned

noneVars == <<noneCalls, noneLast>>

NoCapability == [op |-> "", arg |-> Nil, val |-> Nil, err |-> ""]

IdleNone ==
    /\ noneCalls = 0
    /\ noneLast = NoCapability

VARIABLES
    pkgs,        \* InstallPackages: the file specs to install
    instBlobs,   \* the digests with a blob in the cache c
    instPc,      \* position in InstallPackages
    ipos,        \* index of the spec being resolved
    args,        \* the blob paths (digests) appended to the command line
    started,     \* whether the package manager process has been started
    instRet      \* the returned error: "", "ok" (nil) or "error"

instVars == <<pkgs, instBlobs, instPc, ipos, args, started, instRet>>

IdleInstall ==
    /\ pkgs = <<>>
    /\ instBlobs = {}
    /\ instPc = "idle"
    /\ ipos = 0
    /\ args = <<>>
    /\ started = FALSE
    /\ instRet = ""

VARIABLES
    apkCache,    \* alpine GenerateHash: opts.Cache, nil or <<origin-URL index>>
    apkPkgs,     \* the package names, by lexicographic rank
    urlOf,       \* the URL that apk fetch --url prints for each package
    apkUrls,     \* the lines of the output of apk fetch
    apos,        \* the line generateHashWithURLReader is at
    lookedUp,    \* observed: lines for which SHA256ByOriginURL was called
    imported,    \* observed: lines for which ImportWithURL was called
    wrote,       \* observed: lines for which an entry was written
    apkManifest, \* what the hash writer has written
    apkRet,      \* the returned error: "", "ok" (nil) or "error"
    run,         \* 1 for the first generation, 2 for the one after it
    firstRun     \* nil, or the outcome of the first generation

apkVars == <<apkCache, apkPkgs, urlOf, apkUrls, apos, lookedUp, imported,
             wrote, apkManifest, apkRet, run, firstRun>>

IdleAlpine ==
    /\ apkCache = Nil
    /\ apkPkgs = {}
    /\ urlOf = <<>>
    /\ apkUrls = <<>>
    /\ apos = 0
    /\ lookedUp = {}
    /\ imported = {}
    /\ wrote = {}
    /\ apkManifest = <<>>
    /\ apkRet = ""
    /\ run = 0
    /\ firstRun = Nil

VARIABLES
    cancelled,   \* whether the caller's context has been cancelled
    inflight,    \* nil, or the blocking operation that is running
    oplog        \* the blocking operations that have returned, in order

ctxVars == <<cancelled, inflight, oplog>>

IdleContext ==
    /\ cancelled = FALSE
    /\ inflight = Nil
    /\ oplog = <<>>

VARIABLES
    fileSpecs,   \* two Downloads in a row: the fileSpecs argument of both
    runNo,       \* 1 during the first Download, 2 during the second
    first        \* nil, or what the first Download returned and skipped

twiceVars == <<fileSpecs, runNo, first>>

IdleTwice ==
    /\ fileSpecs = <<>>
    /\ runNo = 0
    /\ first = Nil

coreVars == <<dlVars, drvVars, callVars, genVars>>

auxVars == <<hgVars, noneVars, instVars, apkVars, ctxVars, twiceVars>>

vars == <<coreVars, auxVars>>

\* Every operation other than g is at rest, and stays so.
OthersIdle(g) ==
    /\ (g # "hashGenerate" => IdleHashGenerate)
    /\ (g # "none" => IdleNone)
    /\ (g # "install" => IdleInstall)
    /\ (g # "alpine" => IdleAlpine)
    /\ (g # "context" => IdleContext)
    /\ (g # "twice" => IdleTwice)

OthersUnchanged(g) ==
    /\ (g # "hashGenerate" => UNCHANGED hgVars)
    /\ (g # "none" => UNCHANGED noneVars)
    /\ (g # "install" => UNCHANGED instVars)
    /\ (g # "alpine" => UNCHANGED apkVars)
    /\ (g # "context" => UNCHANGED ctxVars)
    /\ (g # "twice" => UNCHANGED twiceVars)

\* The versions a file spec's identity is drawn from.
SpecVersions == {1}

\* The file specs a caller can pass for the key `name`: a generic file, a
\* .deb with its dpkg identity or an .apk with its apk identity.
FileSpecs(name) ==
    {FileSpecOf(name, sha, id[1], id[2]) :
        sha \in Digests,
        id \in {<<Nil, Nil>>}
               \cup {<<(<<x>>), Nil>> : x \in {y \in DpkgIds : y.Version \in SpecVersions}}
               \cup {<<Nil, (<<x>>)>> : x \in {y \in APKIds : y.Version \in SpecVersions}}}

\* What the package enumerator can print.
RECURSIVE SeqsUpTo(_, _)
SeqsUpTo(S, n) ==
    IF n = 0 THEN {<<>>}
    ELSE LET shorter == SeqsUpTo(S, n - 1)
         IN  shorter \cup {Append(q, x) : q \in {t \in shorter : Len(t) = n - 1}, x \in S}

EnumOutputs == SeqsUpTo(Lines, MaxLines)

\* sort.Strings over the keys of the map.
RECURSIVE SortedSeq(_)
SortedSeq(S) ==
    IF S = {} THEN <<>>
    ELSE LET m == CHOOSE x \in S : \A y \in S : x <= y
         IN  <<m>> \o SortedSeq(S \ {m})

Error(msg, name, provider) == <<[msg |-> msg, name |-> name, provider |-> provider]>>

NoSpec == FileSpecOf(0, 0, Nil, Nil)

\* What the package enumerator can print during a Download.
DownloadEnumOutputs == {<<>>} \cup {<<l>> : l \in Lines}

NoCall == IsInstalledResult(Nil, FALSE, "", FALSE)

IdleCalls ==
    /\ calls = 0
    /\ lastCall = NoCall

IdleGen ==
    /\ paragraphs = <<>>
    /\ pos = 0
    /\ seen = EmptyMap
    /\ manifest = <<>>
    /\ genRet = ""

Init ==
    /\ IdleCalls
    /\ IdleGen
    /\ OthersIdle("")
    /\ distro \in DistroNames \cup {"nil"}
    /\ dInstalled = Nil
    /\ enumRuns = 0
    /\ cache \in {Nil} \cup {<<b>> : b \in SUBSET Digests}
    /\ names \in {1..n : n \in 0..MaxFiles}   \* keys, by lexicographic rank
    /\ opts \in [Providers : {[k \in 1..n |-> k] : n \in 0..MaxProviders},
                 SkipInstalled : BOOLEAN]
    /\ pc = "start"
    /\ providers = <<>>
    /\ fnames = <<>>
    /\ i = 0
    /\ j = 0
    /\ sp = NoSpec
    /\ u = Nil
    /\ res = <<>>
    /\ retRes = Nil
    /\ retErr = Nil
    /\ touched = {}
    /\ skipped = {}
    /\ ops = {}
    /\ tried = <<>>
    /\ nEnsure = 0
    /\ emitted = {}

\* return nil, err
ReturnError(e) ==
    /\ pc' = "done"
    /\ retRes' = Nil
    /\ retErr' = e

\* downloader.go:25-47: the argument checks, the provider list in effect
\* and the sorted keys.
\* The orders in which `for f := range fileSpecs` can yield the keys.
Orderings(S) ==
    {q \in [1..Cardinality(S) -> S] : {q[k] : k \in 1..Cardinality(S)} = S}

\* Faulty variant: the keys are left in map iteration order.
SortStringsOmitted(q) == q

\* downloader.go:45: sort.Strings(fnames).
SortStrings(q) == SortedSeq({q[k] : k \in DOMAIN q})

\* The provider named in a message at a source line, and the form it is
\* printed in: u.Redacted() at lines 87, 90 and 92, the provider string
\* itself (%q) at line 85.
Mention(line, provider) ==
    [line |-> line, provider |-> provider,
     form |-> IF line = 85 THEN "raw" ELSE "redacted"]

ProvidersInEffectPreferDefaults(optProviders, defaults) ==
    IF Len(defaults) = 0 THEN optProviders ELSE defaults

ProvidersInEffect(optProviders, defaults) ==
    IF Len(optProviders) = 0 THEN defaults ELSE optProviders

DownloadEnter ==
    /\ pc = "start"
    /\ IF distro = "nil"
       THEN /\ ReturnError(Error("distro driver needs to be specified", 0, 0))
            /\ UNCHANGED <<providers, fnames, i>>
       ELSE IF cache = Nil
       THEN /\ ReturnError(Error("cache needs to be specified", 0, 0))
            /\ UNCHANGED <<providers, fnames, i>>
       ELSE LET p == ProvidersInEffect(opts.Providers, DefaultProviders(distro))
            IN  IF Len(p) = 0
                THEN /\ ReturnError(Error("provider needs to be specified", 0, 0))
                     /\ UNCHANGED <<providers, fnames, i>>
                ELSE /\ providers' = p
                     /\ \E q \in Orderings(names) : fnames' = SortStrings(q)
                     /\ i' = 1
                     /\ pc' = "loop"
                     /\ UNCHANGED <<retRes, retErr>>
    /\ emitted' = {}
    /\ UNCHANGED <<distro, dInstalled, enumRuns, cache, names, opts,
                   j, sp, u, res, touched, skipped, ops, tried, nEnsure>>
    /\ UNCHANGED <<callVars, genVars, auxVars>>

\* downloader.go:56-61 and 100: the loop head; reads fileSpecs[fname], or
\* returns the result after the last key.  Download reads each entry of
\* the map once and never writes it, so the entry is drawn here, where it
\* is read.
LoopHead ==
    /\ pc = "loop"
    /\ IF i > Len(fnames)
       THEN /\ pc' = "done"
            /\ retRes' = <<res>>
            /\ retErr' = Nil
            /\ UNCHANGED <<sp, ops, tried>>
       ELSE /\ sp' \in FileSpecs(fnames[i])
            /\ ops' = {}
            /\ tried' = <<>>
            /\ pc' = IF opts.SkipInstalled THEN "installed" ELSE "cached"
            /\ UNCHANGED <<retRes, retErr>>
    /\ emitted' = {}
    /\ UNCHANGED <<distro, dInstalled, enumRuns, cache, names, opts, providers,
                   fnames, i, j, u, res, touched, skipped, nEnsure>>
    /\ UNCHANGED <<callVars, genVars, auxVars>>

\* The identity errors of the drivers.
NoIdentityErrors == {"dpkg information not available", "apk information not available"}

\* Faulty variant: the answer of the installed check is ignored.
PackageVersionInstalledIgnored(r) == FALSE

\* downloader.go:62-66: an error of the installed check is logged and the
\* spec is treated as not installed.
PackageVersionInstalled(r) == IF r.err # "" THEN FALSE ELSE r.ret

InstalledOp(r) ==
    IF r.err \in NoIdentityErrors THEN "IsInstalled:noidentity"
    ELSE IF r.err # "" THEN "IsInstalled:err"
    ELSE IF r.ret THEN "IsInstalled:true" ELSE "IsInstalled:false"

\* downloader.go:61-71
CheckInstalled ==
    /\ pc = "installed"
    /\ \E out \in DownloadEnumOutputs :
         \E r \in IsPackageVersionInstalled(distro, dInstalled, sp, out) :
            /\ dInstalled' = r.installed
            /\ enumRuns' = IF r.enumerated THEN enumRuns + 1 ELSE enumRuns
            /\ ops' = ops \cup {InstalledOp(r)}
            /\ touched' = touched \cup {sp.Name}
            /\ IF PackageVersionInstalled(r)
               THEN /\ i' = i + 1
                    /\ skipped' = skipped \cup {sp.Name}
                    /\ pc' = "loop"
               ELSE /\ i' = i
                    /\ skipped' = skipped
                    /\ pc' = "cached"
    /\ emitted' = {}
    /\ UNCHANGED <<distro, cache, names, opts, providers, fnames, j,
                   sp, u, res, retRes, retErr, tried, nEnsure>>
    /\ UNCHANGED <<callVars, genVars, auxVars>>

\* Faulty variant: the answer of the cache check is ignored.
IsCachedIgnored(r) == FALSE

\* Faulty variant: a failed cache check counts as cached.
IsCachedOnError(r) == IF r.err THEN TRUE ELSE r.cached

\* downloader.go:72-76: an error of the cache check is logged and the
\* digest is treated as not cached.
IsCached(r) == IF r.err THEN FALSE ELSE r.cached

\* Faulty variant: a cached spec is left out of the result.
ResultAfterCachedDropped(list, s) == list

\* Faulty variant: a cached spec is put at the head of the result.
ResultAfterCachedPrepended(list, s) == <<s>> \o list

\* downloader.go:77-80: a cached spec is added to the result.
ResultAfterCached(list, s) == Append(list, s)

CachedOp(r) ==
    IF r.err THEN "Cached:err" ELSE IF r.cached THEN "Cached:true" ELSE "Cached:false"

\* downloader.go:72-81
CheckCached ==
    /\ pc = "cached"
    /\ \E r \in Cached(cache[1], sp.SHA256) :
            /\ ops' = ops \cup {CachedOp(r)}
            /\ touched' = touched \cup {sp.Name}
            /\ IF IsCached(r)
               THEN /\ res' = ResultAfterCached(res, sp)
                    /\ i' = i + 1
                    /\ j' = j
                    /\ pc' = "loop"
               ELSE /\ res' = res
                    /\ i' = i
                    /\ j' = 1
                    /\ pc' = "url"
    /\ emitted' = {}
    /\ UNCHANGED <<distro, dInstalled, enumRuns, cache, names, opts,
                   providers, fnames, sp, u, retRes, retErr, skipped, tried,
                   nEnsure>>
    /\ UNCHANGED <<callVars, genVars, auxVars>>

\* downloader.go:82-87
ResolveURL ==
    /\ pc = "url"
    /\ \E r \in URL(sp, providers[j]) :
            /\ ops' = ops \cup {"URL"}
            /\ touched' = touched \cup {sp.Name}
            /\ IF r.err
               THEN /\ ReturnError(Error("failed to determine the URL", sp.Name, providers[j]))
                    /\ emitted' = {Mention(85, providers[j])}
                    /\ u' = u
               ELSE /\ u' = r.u
                    /\ emitted' = {Mention(87, providers[j])}
                    /\ pc' = "ensure"
                    /\ UNCHANGED <<retRes, retErr>>
    /\ UNCHANGED <<distro, dInstalled, enumRuns, cache, names, opts,
                   providers, fnames, i, j, sp, res, skipped, tried, nEnsure>>
    /\ UNCHANGED <<callVars, genVars, auxVars>>

\* Faulty variants of AfterEnsure: no break on success; a failure on the
\* last provider ignored; a digest mismatch treated as fatal.
AfterEnsureNoBreak(err, jj, n) ==
    IF jj # n THEN "next" ELSE IF err # "" THEN "fail" ELSE "break"

AfterEnsureIgnoreLast(err, jj, n) ==
    IF err # "" /\ jj # n THEN "next" ELSE "break"

AfterEnsureMismatchFatal(err, jj, n) ==
    IF err = "DigestMismatch" THEN "fail"
    ELSE IF err # "" THEN (IF jj # n THEN "next" ELSE "fail")
    ELSE "break"

\* Faulty variant: a failed provider is tried again.
NextProviderRetry(jj) == jj

\* downloader.go:82: the range loop moves on to the next provider.
NextProvider(jj) == jj + 1

\* downloader.go:88-96: what follows an Ensure call on provider jj of n.
AfterEnsure(err, jj, n) ==
    IF err # ""
    THEN IF jj # n THEN "next" ELSE "fail"
    ELSE "break"

\* downloader.go:88-98
EnsureStep ==
    /\ pc = "ensure"
    /\ \E r \in Ensure(cache[1], u, sp.SHA256) :
         LET after == AfterEnsure(r.err, j, Len(providers))
         IN  /\ cache' = <<r.blobs>>
             /\ ops' = ops \cup {"Ensure"}
             /\ touched' = touched \cup {sp.Name}
             /\ tried' = Append(tried, [provider |-> providers[j], err |-> r.err])
             /\ nEnsure' = nEnsure + 1
             /\ CASE after = "next" ->
                        /\ j' = NextProvider(j)
                        /\ emitted' = {Mention(90, providers[j])}
                        /\ pc' = "url"
                        /\ UNCHANGED <<i, res, retRes, retErr>>
                  [] after = "fail" ->
                        /\ ReturnError(Error("failed to download", sp.Name, providers[j]))
                        /\ emitted' = {Mention(92, providers[j])}
                        /\ UNCHANGED <<i, j, res>>
                  [] OTHER ->
                        /\ res' = Append(res, sp)
                        /\ emitted' = {}
                        /\ i' = i + 1
                        /\ pc' = "loop"
                        /\ UNCHANGED <<j, retRes, retErr>>
    /\ UNCHANGED <<distro, dInstalled, enumRuns, names, opts,
                   providers, fnames, sp, u, skipped>>
    /\ UNCHANGED <<callVars, genVars, auxVars>>

Next ==
    \/ DownloadEnter
    \/ LoopHead
    \/ CheckInstalled
    \/ CheckCached
    \/ ResolveURL
    \/ EnsureStep

Spec == Init /\ [][Next]_vars

\* ------------------------------------------------ two Downloads in a row
\* A caller that passes the same map of file specs to both Downloads.
FileSpecMaps(keys) ==
    {f \in [keys -> UNION {FileSpecs(n) : n \in keys}] : \A n \in keys : f[n].Name = n}

InitTwice ==
    /\ IdleCalls
    /\ IdleGen
    /\ OthersIdle("twice")
    /\ distro \in {"debian", "alpine"}
    /\ dInstalled = Nil
    /\ enumRuns = 0
    /\ cache \in {<<b>> : b \in SUBSET Digests}
    /\ names \in {1..n : n \in 1..MaxFiles}
    /\ opts \in [Providers : {[x \in 1..n |-> x] : n \in 1..MaxProviders},
                 SkipInstalled : BOOLEAN]
    /\ pc = "start"
    /\ providers = <<>>
    /\ fnames = <<>>
    /\ i = 0
    /\ j = 0
    /\ sp = NoSpec
    /\ u = Nil
    /\ res = <<>>
    /\ retRes = Nil
    /\ retErr = Nil
    /\ touched = {}
    /\ skipped = {}
    /\ ops = {}
    /\ tried = <<>>
    /\ nEnsure = 0
    /\ emitted = {}
    /\ fileSpecs \in FileSpecMaps(names)
    /\ runNo = 1
    /\ first = Nil

\* downloader.go:57: sp := fileSpecs[fname], read from the caller's map.
LoopHeadOfMap ==
    /\ LoopHead
    /\ i <= Len(fnames) => sp' = fileSpecs[fnames[i]]

\* The caller calls Download again after a successful return, with the
\* same file specs, options and cache, and the same or a new driver.
DownloadAgain ==
    /\ runNo = 1
    /\ pc = "done"
    /\ retErr = Nil
    /\ runNo' = 2
    /\ first' = <<[res |-> res, skipped |-> skipped]>>
    /\ dInstalled' \in {dInstalled, Nil}
    /\ pc' = "start"
    /\ providers' = <<>>
    /\ fnames' = <<>>
    /\ i' = 0
    /\ j' = 0
    /\ sp' = NoSpec
    /\ u' = Nil
    /\ res' = <<>>
    /\ retRes' = Nil
    /\ retErr' = Nil
    /\ touched' = {}
    /\ skipped' = {}
    /\ ops' = {}
    /\ tried' = <<>>
    /\ nEnsure' = 0
    /\ emitted' = {}
    /\ UNCHANGED <<distro, enumRuns, cache, names, opts, fileSpecs>>
    /\ UNCHANGED <<callVars, genVars>>
    /\ OthersUnchanged("twice")

NextTwice ==
    \/ DownloadEnter
    \/ LoopHeadOfMap
    \/ CheckInstalled
    \/ CheckCached
    \/ ResolveURL
    \/ EnsureStep
    \/ DownloadAgain

SpecTwice == InitTwice /\ [][NextTwice]_vars

\* ------------------------------------------- calls on a driver instance
IdleDownload ==
    /\ cache = Nil
    /\ names = {}
    /\ opts = [Providers |-> <<>>, SkipInstalled |-> FALSE]
    /\ pc = "idle"
    /\ providers = <<>>
    /\ fnames = <<>>
    /\ i = 0
    /\ j = 0
    /\ sp = NoSpec
    /\ u = Nil
    /\ res = <<>>
    /\ retRes = Nil
    /\ retErr = Nil
    /\ touched = {}
    /\ skipped = {}
    /\ ops = {}
    /\ tried = <<>>
    /\ nEnsure = 0
    /\ emitted = {}

\* The file specs a caller can ask a driver about.
DriverSpecs ==
    {FileSpecOf(1, 1, id[1], id[2]) :
        id \in {<<Nil, Nil>>} \cup {<<(<<x>>), Nil>> : x \in DpkgIds}
                             \cup {<<Nil, (<<x>>)>> : x \in APKIds}}

\* A driver instance as New() returns it: no snapshot yet.
InitDriver ==
    /\ IdleDownload
    /\ IdleGen
    /\ IdleCalls
    /\ OthersIdle("")
    /\ distro \in DistroNames
    /\ dInstalled = Nil
    /\ enumRuns = 0

\* One call of d.IsPackageVersionInstalled(ctx, sp), the enumerator
\* printing `o` if it is run.
CallIsPackageVersionInstalled ==
    /\ calls < MaxCalls
    /\ \E s \in DriverSpecs, o \in EnumOutputs :
         \E r \in IsPackageVersionInstalled(distro, dInstalled, s, o) :
            /\ dInstalled' = r.installed
            /\ enumRuns' = IF r.enumerated THEN enumRuns + 1 ELSE enumRuns
            /\ calls' = calls + 1
            /\ lastCall' = r
    /\ UNCHANGED <<distro, dlVars, genVars, auxVars>>

NextDriver == CallIsPackageVersionInstalled

SpecDriver == InitDriver /\ [][NextDriver]_vars



\* ------------------------------------------------------ the none driver
\* part_001:14
ErrNotImplemented == "distro driver \"none\" does not implement the requested feature"

\* A returned (value, error), "" for a nil error.
Returned(val, err) == [val |-> val, err |-> err]

\* part_001:34-36
NoneGenerateHash(o) == Returned(Nil, ErrNotImplemented)

\* part_001:38-40
NonePackageName(s) == Returned(<<"">>, ErrNotImplemented)

\* Faulty variant: no check for an empty list.
NoneInstallPackagesAlways(list) == Returned(Nil, ErrNotImplemented)

\* part_001:47-52
NoneInstallPackages(list) ==
    IF Len(list) = 0 THEN Returned(Nil, "") ELSE Returned(Nil, ErrNotImplemented)

\* part_001:54-56
NoneGenerateDockerfile(dir) == Returned(Nil, ErrNotImplemented)

\* The arguments of the calls: hash options, spec lists, directories.
HashOptsArgs == {[FilterByName |-> f] : f \in SeqsUpTo({1}, 1)}

PkgLists == SeqsUpTo(DriverSpecs, MaxFiles)

Dirs == {"", "/tmp/x"}

InitNone ==
    /\ IdleDownload
    /\ IdleCalls
    /\ IdleGen
    /\ OthersIdle("none")
    /\ distro = "none"
    /\ dInstalled = Nil
    /\ enumRuns = 0
    /\ noneCalls = 0
    /\ noneLast = NoCapability

NoneCall(op, arg, r) ==
    /\ noneCalls < MaxCalls
    /\ noneCalls' = noneCalls + 1
    /\ noneLast' = [op |-> op, arg |-> arg, val |-> r.val, err |-> r.err]
    /\ UNCHANGED coreVars
    /\ OthersUnchanged("none")

CallNoneGenerateHash ==
    \E o \in HashOptsArgs : NoneCall("GenerateHash", o, NoneGenerateHash(o))

CallNonePackageName ==
    \E s \in DriverSpecs : NoneCall("PackageName", s, NonePackageName(s))

CallNoneIsPackageVersionInstalled ==
    \E s \in DriverSpecs :
        \E r \in NoneIsPackageVersionInstalled(dInstalled, s, <<>>) :
            NoneCall("IsPackageVersionInstalled", s, Returned(<<r.ret>>, r.err))

CallNoneInstallPackages ==
    \E list \in PkgLists : NoneCall("InstallPackages", list, NoneInstallPackages(list))

CallNoneGenerateDockerfile ==
    \E dir \in Dirs : NoneCall("GenerateDockerfile", dir, NoneGenerateDockerfile(dir))

NextNone ==
    \/ CallNoneGenerateHash
    \/ CallNonePackageName
    \/ CallNoneIsPackageVersionInstalled
    \/ CallNoneInstallPackages
    \/ CallNoneGenerateDockerfile

SpecNone == InitNone /\ [][NextNone]_vars


\* ------------------------------------- InstallPackages (debian, alpine)
\* cache.BlobAbsPath(digest): the path of the blob; fails if the digest is
\* not present in the cache.
BlobAbsPath(blobs, digest) ==
    IF digest \in blobs THEN [path |-> <<digest>>, err |-> FALSE]
    ELSE [path |-> Nil, err |-> TRUE]

\* Faulty variant: the error of BlobAbsPath is not looked at.
ResolveFailedIgnored(r) == FALSE

\* debian.go:235-238, alpine.go:216-219: if err != nil { return err }
ResolveFailed(r) == r.err

\* The file specs handed to InstallPackages.
InstallSpecs == {FileSpecOf(n, sha, Nil, Nil) : n \in 1..MaxFiles, sha \in Digests}

InitInstall ==
    /\ IdleDownload
    /\ IdleCalls
    /\ IdleGen
    /\ OthersIdle("install")
    /\ distro \in {"debian", "ubuntu", "alpine"}
    /\ dInstalled = Nil
    /\ enumRuns = 0
    /\ pkgs \in SeqsUpTo(InstallSpecs, MaxFiles)
    /\ instBlobs \in SUBSET Digests
    /\ instPc = "enter"
    /\ ipos = 0
    /\ args = <<>>
    /\ started = FALSE
    /\ instRet = ""

InstallReturn(e) ==
    /\ instPc' = "done"
    /\ instRet' = e

\* debian.go:225-231, alpine.go:201-211: the empty list, exec.LookPath and,
\* for alpine, os.MkdirTemp.
InstallEnter ==
    /\ instPc = "enter"
    /\ IF Len(pkgs) = 0
       THEN /\ InstallReturn("ok")
            /\ ipos' = ipos
       ELSE \E lookPathOK, mkdirTempOK \in BOOLEAN :
               IF ~lookPathOK \/ (distro = "alpine" /\ ~mkdirTempOK)
               THEN /\ InstallReturn("error")
                    /\ ipos' = ipos
               ELSE /\ instPc' = "resolve"
                    /\ ipos' = 1
                    /\ instRet' = instRet
    /\ UNCHANGED <<pkgs, instBlobs, args, started, coreVars>>
    /\ OthersUnchanged("install")

\* debian.go:234-240, alpine.go:215-228: one iteration of the loop over the
\* specs; alpine also links the blob into the temporary directory.
InstallResolve ==
    /\ instPc = "resolve"
    /\ ipos <= Len(pkgs)
    /\ LET r == BlobAbsPath(instBlobs, pkgs[ipos].SHA256)
       IN  IF ResolveFailed(r)
           THEN /\ InstallReturn("error")
                /\ UNCHANGED <<ipos, args>>
           ELSE \E secureJoinOK, symlinkOK \in BOOLEAN :
                   IF distro = "alpine" /\ ~(secureJoinOK /\ symlinkOK)
                   THEN /\ InstallReturn("error")
                        /\ UNCHANGED <<ipos, args>>
                   ELSE /\ args' = Append(args, pkgs[ipos].SHA256)
                        /\ ipos' = ipos + 1
                        /\ UNCHANGED <<instPc, instRet>>
    /\ UNCHANGED <<pkgs, instBlobs, started, coreVars>>
    /\ OthersUnchanged("install")

\* debian.go:241-249, alpine.go:229-237: the package manager is run on the
\* collected paths.
InstallRun ==
    /\ instPc = "resolve"
    /\ ipos > Len(pkgs)
    /\ started' = TRUE
    /\ \E runOK \in BOOLEAN : InstallReturn(IF runOK THEN "ok" ELSE "error")
    /\ UNCHANGED <<pkgs, instBlobs, ipos, args, coreVars>>
    /\ OthersUnchanged("install")

NextInstall ==
    \/ InstallEnter
    \/ InstallResolve
    \/ InstallRun

SpecInstall == InitInstall /\ [][NextInstall]_vars

\* ------------------------------------- repro-get hash generate --dedupe
MaxEntries == 2

FileNames == {1, 2}

\* The zero value a Go map lookup returns for an absent key: "".
NoDigest == 0

\* sha256sums.Parse: the prior manifest as a map from filename to digest.
PriorManifests ==
    UNION {[D -> Digests] : D \in SUBSET FileNames}

\* An hw call of a driver: debian skips a paragraph without SHA256 and
\* alpine computes the digest, so the digest is never empty.
Entry(sha256sum, filename) == [sha256sum |-> sha256sum, filename |-> filename]

Entries == {Entry(d, f) : d \in Digests, f \in FileNames}

\* oldSums[filename]
Lookup(m, filename) == IF filename \in DOMAIN m THEN m[filename] ELSE NoDigest

\* Faulty variant: an entry is dropped whenever the prior manifest knows
\* its filename.
SuppressedByFilename(m, sha256sum, filename) == filename \in DOMAIN m

\* hash_generate.go:73-75: if oldSums[filename] == sha256sum { return nil }
Suppressed(m, sha256sum, filename) == Lookup(m, filename) = sha256sum

\* distro.NewHashWriter: appends the line, or fails to write.
HashWriter(w, e) == {[w |-> Append(w, e), err |-> FALSE], [w |-> w, err |-> TRUE]}

IdleDriver ==
    /\ distro = "nil"
    /\ dInstalled = Nil
    /\ enumRuns = 0

IdleCore ==
    /\ IdleDownload
    /\ IdleCalls
    /\ IdleGen
    /\ IdleDriver

\* hash_generate.go:59-71: the flag is read and the prior manifest parsed.
InitHashGenerate ==
    /\ IdleCore
    /\ OthersIdle("hashGenerate")
    /\ oldSums \in {Nil} \cup {<<m>> : m \in PriorManifests}
    /\ entries \in SeqsUpTo(Entries, MaxEntries)
    /\ hpos = 0
    /\ written = <<>>
    /\ hgRet = ""

\* hash_generate.go:72-77: one call of hw by the driver; a driver returns
\* the error of hw at once.
HashWrite ==
    /\ hgRet = ""
    /\ hpos < Len(entries)
    /\ LET e == entries[hpos + 1]
       IN  /\ hpos' = hpos + 1
           /\ IF oldSums # Nil /\ Suppressed(oldSums[1], e.sha256sum, e.filename)
              THEN UNCHANGED <<written, hgRet>>
              ELSE \E r \in HashWriter(written, e) :
                      /\ written' = r.w
                      /\ hgRet' = IF r.err THEN "error" ELSE hgRet
    /\ UNCHANGED <<oldSums, entries, coreVars>>
    /\ OthersUnchanged("hashGenerate")

\* hash_generate.go:80: GenerateHash returns after its last hw call.
HashGenerateReturn ==
    /\ hgRet = ""
    /\ hpos = Len(entries)
    /\ hgRet' = "ok"
    /\ UNCHANGED <<oldSums, entries, hpos, written, coreVars>>
    /\ OthersUnchanged("hashGenerate")

NextHashGenerate ==
    \/ HashWrite
    \/ HashGenerateReturn

SpecHashGenerate == InitHashGenerate /\ [][NextHashGenerate]_vars

\* ------------------------------------------------ debian generateHash
\* Version strings of the index; "" is one that version.Parse rejects.
VersionStrings == {"", "1.0", "2.0"}

\* version.Parse: nil on error, else the parsed version.
VersionParse(v) ==
    CASE v = "1.0" -> <<10>>
      [] v = "2.0" -> <<20>>
      [] OTHER -> Nil

\* version.Compare on parsed versions: negative, zero or positive.
VersionCompare(a, b) == a[1] - b[1]

\* control.BinaryParagraph: Package and the values Architecture, Version,
\* Filename and SHA256, the last two possibly absent ("").
Paragraphs ==
    [Package : {1, 2}, Architecture : Archs, Version : VersionStrings,
     hasFilename : BOOLEAN, hasSHA256 : BOOLEAN]

\* The Filename value of a paragraph: "" (nil here) or the pool path of
\* the package at that version.
Filename(f) == IF f.hasFilename THEN <<f.Package, f.Version, f.Architecture>> ELSE Nil

\* The SHA256 value of a paragraph: "" (nil here) or the digest of the
\* archive of the package at that version.
SHA256(f) == IF f.hasSHA256 THEN <<"sha256", f.Package, f.Version, f.Architecture>> ELSE Nil

SeenKey(f) == <<f.Package, f.Architecture>>

\* debian.go:119-133: the paragraph is skipped because of the entry seen
\* before for its key.
SkippedBySeen(seenMap, f) ==
    /\ SeenKey(f) \in DOMAIN seenMap
    /\ \/ VersionParse(seenMap[SeenKey(f)]) = Nil
       \/ VersionParse(f.Version) = Nil
       \/ VersionCompare(VersionParse(seenMap[SeenKey(f)]), VersionParse(f.Version)) > 0

InitGen ==
    /\ IdleDownload
    /\ IdleCalls
    /\ OthersIdle("")
    /\ distro = "debian"
    /\ dInstalled = Nil
    /\ enumRuns = 0
    /\ paragraphs \in SeqsUpTo(Paragraphs, MaxParagraphs)
    /\ pos = 0
    /\ seen = EmptyMap
    /\ manifest = <<>>
    /\ genRet = ""

\* debian.go:106-115: control.Unmarshal reads the index, or fails.
GenUnmarshal ==
    /\ genRet = ""
    /\ pos = 0
    /\ \E ok \in BOOLEAN :
         IF ok
         THEN pos' = 1 /\ genRet' = genRet
         ELSE pos' = pos /\ genRet' = "error"
    /\ UNCHANGED <<paragraphs, seen, manifest, dlVars, drvVars, callVars, auxVars>>

\* debian.go:116-149: one iteration of the loop over the paragraphs; hw
\* writes the entry or fails.
GenParagraph ==
    /\ genRet = ""
    /\ pos >= 1
    /\ pos <= Len(paragraphs)
    /\ LET f == paragraphs[pos]
       IN  IF SkippedBySeen(seen, f)
           THEN /\ pos' = pos + 1
                /\ UNCHANGED <<seen, manifest, genRet>>
           ELSE /\ seen' = MapPut(seen, SeenKey(f), f.Version)
                /\ IF Filename(f) = Nil \/ SHA256(f) = Nil
                   THEN /\ pos' = pos + 1
                        /\ UNCHANGED <<manifest, genRet>>
                   ELSE \E ok \in BOOLEAN :
                          IF ok
                          THEN /\ manifest' = Append(manifest, <<SHA256(f), Filename(f)>>)
                               /\ pos' = pos + 1
                               /\ genRet' = genRet
                          ELSE /\ genRet' = "error"
                               /\ UNCHANGED <<manifest, pos>>
    /\ UNCHANGED <<paragraphs, dlVars, drvVars, callVars, auxVars>>

\* debian.go:150: return nil after the last paragraph.
GenReturn ==
    /\ genRet = ""
    /\ pos > Len(paragraphs)
    /\ genRet' = "ok"
    /\ UNCHANGED <<paragraphs, pos, seen, manifest, dlVars, drvVars, callVars, auxVars>>

NextGen ==
    \/ GenUnmarshal
    \/ GenParagraph
    \/ GenReturn

SpecGen == InitGen /\ [][NextGen]_vars


\* -------------------------------------------------- alpine GenerateHash
PkgNames == {1, 2}

\* A package URL: its scheme and the filename that
\* urlToFilenameWithoutProvider makes of its path, by lexicographic rank;
\* NoFilename for a path without an alpine/vN segment.
NoFilename == 0

BadURL == [scheme |-> ":", fname |-> NoFilename]

PackageURLs ==
    {[scheme |-> sch, fname |-> f] :
        sch \in {"https", "http"}, f \in FileNames \cup {NoFilename}}

\* A line of the output of apk fetch: a URL, or one url.Parse rejects.
URLLines == PackageURLs \cup {BadURL}

\* cache.SHA256ByOriginURL(u): the digest recorded for the URL, the
\* not-found error, or another error.
SHA256ByOriginURL(index, url) ==
    (IF url \in DOMAIN index
     THEN {[sha256sum |-> index[url], err |-> ""]}
     ELSE {[sha256sum |-> NoDigest, err |-> "ErrNotExist"]})
    \cup {[sha256sum |-> NoDigest, err |-> "IOError"]}

\* cache.ImportWithURL(u): downloads the URL, stores the blob under the
\* digest of what it read and records the URL in the index, or fails.
ImportWithURL(index, url) ==
    {[index |-> MapPut(index, url, d), sha256sum |-> d, err |-> FALSE] : d \in Digests}
    \cup {[index |-> index, sha256sum |-> NoDigest, err |-> TRUE]}

\* Faulty variant: any scheme is accepted.
SchemeRejectedNever(url) == FALSE

\* alpine.go:107-109: if u.Scheme != "https"
SchemeRejected(url) == url.scheme # "https"

\* Faulty variant: the index is not consulted for the answer.
AfterLookupAlwaysImport(r) ==
    IF r.err = "" \/ r.err = "ErrNotExist" THEN "import" ELSE "abort"

\* alpine.go:115-120: what follows the lookup in the origin-URL index.
AfterLookup(r) ==
    IF r.err = "" THEN "write"
    ELSE IF r.err # "ErrNotExist" THEN "abort"
    ELSE "import"

InitAlpine ==
    /\ IdleDownload
    /\ IdleCalls
    /\ IdleGen
    /\ OthersIdle("alpine")
    /\ distro = "alpine"
    /\ dInstalled = Nil
    /\ enumRuns = 0
    /\ apkPkgs \in (SUBSET PkgNames) \ {{}}
    /\ urlOf \in [apkPkgs -> URLLines]
    /\ apkCache \in {Nil} \cup
            {<<m>> : m \in UNION {[D -> Digests] : D \in SUBSET {urlOf[n] : n \in apkPkgs}}}
    /\ apkUrls = <<>>
    /\ apos = 0
    /\ lookedUp = {}
    /\ imported = {}
    /\ wrote = {}
    /\ apkManifest = <<>>
    /\ apkRet = ""
    /\ run = 1
    /\ firstRun = Nil

\* alpine.go:53-83: the cache is required; the names are sorted and passed
\* to apk fetch, which prints one URL per package in the order asked, or
\* fails (as do Installed and os.MkdirTemp).
AlpineGenerateHash ==
    /\ apkRet = ""
    /\ apos = 0
    /\ IF apkCache = Nil
       THEN /\ apkRet' = "error"
            /\ UNCHANGED <<apkUrls, apos>>
       ELSE \E q \in Orderings(apkPkgs), envOK \in BOOLEAN :
               IF envOK
               THEN /\ apkUrls' = [n \in 1..Len(q) |-> urlOf[SortStrings(q)[n]]]
                    /\ apos' = 1
                    /\ apkRet' = apkRet
               ELSE /\ apkRet' = "error"
                    /\ UNCHANGED <<apkUrls, apos>>
    /\ UNCHANGED <<apkCache, apkPkgs, urlOf, lookedUp, imported, wrote,
                   apkManifest, run, firstRun, coreVars>>
    /\ OthersUnchanged("alpine")

\* The tail of generateHashWithURL: return hw(sha256sum, fname).
AlpineWrite(sha256sum, fname) ==
    \E r \in HashWriter(apkManifest, Entry(sha256sum, fname)) :
        /\ apkManifest' = r.w
        /\ IF r.err
           THEN /\ apkRet' = "error"
                /\ UNCHANGED <<apos, wrote>>
           ELSE /\ wrote' = wrote \cup {apos}
                /\ apos' = apos + 1
                /\ apkRet' = apkRet

AlpineFail ==
    /\ apkRet' = "error"
    /\ UNCHANGED <<apos, wrote, apkManifest>>

\* alpine.go:88-97 and 105-127: one line of the output: url.Parse, then
\* generateHashWithURL.
AlpineURL ==
    /\ apkRet = ""
    /\ apos >= 1
    /\ apos <= Len(apkUrls)
    /\ LET url == apkUrls[apos]
       IN  IF url = BadURL \/ SchemeRejected(url) \/ url.fname = NoFilename
           THEN /\ AlpineFail
                /\ UNCHANGED <<apkCache, lookedUp, imported>>
           ELSE \E r \in SHA256ByOriginURL(apkCache[1], url) :
                   /\ lookedUp' = lookedUp \cup {apos}
                   /\ CASE AfterLookup(r) = "write" ->
                              /\ AlpineWrite(r.sha256sum, url.fname)
                              /\ UNCHANGED <<apkCache, imported>>
                        [] AfterLookup(r) = "abort" ->
                              /\ AlpineFail
                              /\ UNCHANGED <<apkCache, imported>>
                        [] OTHER ->
                              \E im \in ImportWithURL(apkCache[1], url) :
                                  /\ imported' = imported \cup {apos}
                                  /\ apkCache' = <<im.index>>
                                  /\ IF im.err
                                     THEN AlpineFail
                                     ELSE AlpineWrite(im.sha256sum, url.fname)
    /\ UNCHANGED <<apkPkgs, urlOf, apkUrls, run, firstRun, coreVars>>
    /\ OthersUnchanged("alpine")

\* alpine.go:98-102: the end of the output, or an error of the scanner.
AlpineReturn ==
    /\ apkRet = ""
    /\ apos > Len(apkUrls)
    /\ \E scanOK \in BOOLEAN : apkRet' = IF scanOK THEN "ok" ELSE "error"
    /\ UNCHANGED <<apkCache, apkPkgs, urlOf, apkUrls, apos, lookedUp, imported,
                   wrote, apkManifest, run, firstRun, coreVars>>
    /\ OthersUnchanged("alpine")

\* The manifest is generated once more for the same packages, with the
\* cache as the first generation left it.
AlpineGenerateAgain ==
    /\ run = 1
    /\ apkRet # ""
    /\ run' = 2
    /\ firstRun' = <<[ret |-> apkRet, manifest |-> apkManifest]>>
    /\ apkUrls' = <<>>
    /\ apos' = 0
    /\ lookedUp' = {}
    /\ imported' = {}
    /\ wrote' = {}
    /\ apkManifest' = <<>>
    /\ apkRet' = ""
    /\ UNCHANGED <<apkCache, apkPkgs, urlOf, coreVars>>
    /\ OthersUnchanged("alpine")

NextAlpine ==
    \/ AlpineGenerateHash
    \/ AlpineURL
    \/ AlpineReturn
    \/ AlpineGenerateAgain

SpecAlpine == InitAlpine /\ [][NextAlpine]_vars


\* ------------------------------------- blocking operations and the context
\* The blocking operations: the provider fetch of Download, the package
\* enumerators, the URL listing and the import of alpine GenerateHash, and
\* the package manager of InstallPackages.
BlockingOps ==
    {"cache.Ensure", "debian.Installed", "alpine.Installed", "apk fetch",
     "cache.ImportWithURL", "dpkg -i", "apk add"}

\* Whether the operation is handed ctx: cache.Ensure(ctx, ...) at
\* downloader.go:88 and exec.CommandContext(ctx, ...) at alpine.go:76,
\* debian.go:241 and alpine.go:229 are; exec.Command at debian.go:186 and
\* alpine.go:172 and c.ImportWithURL(u) at alpine.go:122 are not.
ReceivesContext(op) ==
    op \in {"cache.Ensure", "apk fetch", "dpkg -i", "apk add"}

\* How a running operation can end: one that holds a cancelled context is
\* aborted and leaves nothing behind; any other runs to its own end.
Outcomes(op, hasCtx, isCancelled) ==
    IF hasCtx /\ isCancelled
    THEN {[outcome |-> "aborted", blob |-> FALSE]}
    ELSE {[outcome |-> "ok", blob |-> op \in {"cache.Ensure", "cache.ImportWithURL"}],
          [outcome |-> "error", blob |-> FALSE]}

InitContext ==
    /\ IdleCore
    /\ OthersIdle("context")
    /\ cancelled = FALSE
    /\ inflight = Nil
    /\ oplog = <<>>

\* The program enters a blocking operation.
BlockingStart ==
    /\ inflight = Nil
    /\ Len(oplog) < MaxCalls
    /\ \E op \in BlockingOps :
          inflight' = <<[op |-> op, ctx |-> ReceivesContext(op)]>>
    /\ UNCHANGED <<cancelled, oplog, coreVars>>
    /\ OthersUnchanged("context")

\* The caller cancels the context.
Cancel ==
    /\ ~cancelled
    /\ cancelled' = TRUE
    /\ UNCHANGED <<inflight, oplog, coreVars>>
    /\ OthersUnchanged("context")

\* The blocking operation returns.
BlockingReturn ==
    /\ inflight # Nil
    /\ \E r \in Outcomes(inflight[1].op, inflight[1].ctx, cancelled) :
          oplog' = Append(oplog, [op |-> inflight[1].op, cancelled |-> cancelled,
                                  outcome |-> r.outcome, blob |-> r.blob])
    /\ inflight' = Nil
    /\ UNCHANGED <<cancelled, coreVars>>
    /\ OthersUnchanged("context")

NextContext ==
    \/ BlockingStart
    \/ Cancel
    \/ BlockingReturn

SpecContext == InitContext /\ [][NextContext]_vars

\* ================================================================ claims
Range(q) == {q[k] : k \in DOMAIN q}

LastTried == tried[Len(tried)]

EnsureSucceeded == Len(tried) > 0 /\ LastTried.err = ""

AllProvidersFailed ==
    /\ Len(tried) > 0
    /\ Len(tried) = Len(providers)
    /\ \A k \in DOMAIN tried : tried[k].err # ""

\* C1: the Ensure calls made for a file spec go through the provider list
\* in order; no provider is contacted after the first successful Ensure,
\* the spec is then in the result, and Download does not fail on that spec.
C1_ProvidersInOrderUntilSuccess ==
    /\ Len(tried) <= Len(providers)
    /\ \A k \in DOMAIN tried : tried[k].provider = providers[k]
    /\ \A k \in DOMAIN tried : k < Len(tried) => tried[k].err # ""
    /\ EnsureSucceeded =>
          /\ pc \in {"loop", "done"}
          /\ retErr = Nil
          /\ Len(res) > 0 /\ res[Len(res)] = sp
          /\ pc = "done" => retRes = <<res>>

\* C1 witness: the first provider failed, the second succeeded, and
\* Download returned a result holding the spec.
C1_Witness ==
    /\ pc = "done" /\ retErr = Nil /\ retRes # Nil
    /\ Len(tried) = 2 /\ tried[1].err # "" /\ tried[2].err = ""
    /\ sp \in Range(retRes[1])

\* C2: when Ensure fails on the last provider, Download has returned an
\* error and no result, and no later file spec has had any external call.
C2_LastProviderFailureAborts ==
    (AllProvidersFailed) =>
        /\ pc = "done"
        /\ retErr = Error("failed to download", sp.Name, providers[Len(providers)])
        /\ retRes = Nil
        /\ \A n \in names : n > sp.Name => n \notin touched

\* C2 witness: every provider failed for a spec that has a successor.
C2_Witness ==
    /\ AllProvidersFailed
    /\ \E n \in names : n > sp.Name

\* C3 as stated: a successful Download returns exactly one entry for every
\* requested file spec.
C3_Original ==
    (pc = "done" /\ retErr = Nil) =>
        /\ retRes # Nil
        /\ Len(retRes[1]) = Cardinality(names)
        /\ {retRes[1][k].Name : k \in DOMAIN retRes[1]} = names

\* C3 amended: a successful Download returns exactly one entry for every
\* requested file spec that was not skipped as already installed, and no
\* entry for a skipped one.
C3_ResultCoversUnskipped ==
    (pc = "done" /\ retErr = Nil) =>
        /\ retRes # Nil
        /\ Len(retRes[1]) = Cardinality(names \ skipped)
        /\ {retRes[1][k].Name : k \in DOMAIN retRes[1]} = names \ skipped

\* C3 witness: a successful Download of two specs, one skipped as
\* installed and one cached or fetched.
C3_Witness ==
    /\ pc = "done" /\ retErr = Nil
    /\ Cardinality(names) = 2
    /\ Cardinality(skipped) = 1
    /\ Len(retRes[1]) = 1

\* C4: for a spec the driver reports installed at the exact version, the
\* only external call is the installed check: no Cached, no URL
\* resolution, no Ensure, and the spec is skipped.
C4_InstalledSkipsCacheAndNetwork ==
    ("IsInstalled:true" \in ops) =>
        /\ opts.SkipInstalled
        /\ ops = {"IsInstalled:true"}
        /\ tried = <<>>
        /\ sp.Name \in skipped
        /\ pc \in {"loop", "done"}

\* C4 witness: a spec was reported installed and Download completed.
C4_Witness ==
    /\ "IsInstalled:true" \in ops
    /\ pc = "done" /\ retErr = Nil

\* C5: for a spec the cache reports cached, no provider URL is resolved
\* and Ensure is not called; the spec is in the result.
C5_CachedSkipsNetwork ==
    ("Cached:true" \in ops) =>
        /\ "URL" \notin ops
        /\ "Ensure" \notin ops
        /\ tried = <<>>
        /\ sp.Name \notin skipped
        /\ Len(res) > 0 /\ res[Len(res)] = sp
        /\ pc \in {"loop", "done"}

\* C5 witness: a spec was reported cached and is in the returned result.
C5_Witness ==
    /\ "Cached:true" \in ops
    /\ pc = "done" /\ retRes # Nil /\ sp \in Range(retRes[1])

\* C6: a digest mismatch on a provider that is not the last one is
\* followed by the next provider; when every provider has failed Download
\* has returned an error naming the spec and the spec's digest is not
\* cached.
C6_MismatchIsPerProviderFailure ==
    /\ (Len(tried) > 0 /\ LastTried.err = "DigestMismatch" /\ Len(tried) < Len(providers)) =>
          \/ pc \in {"url", "ensure"} /\ j = Len(tried) + 1 /\ retErr = Nil
          \/ /\ pc = "done"
             /\ retErr = Error("failed to determine the URL", sp.Name, providers[Len(tried) + 1])
    /\ AllProvidersFailed =>
          /\ pc = "done"
          /\ retErr # Nil /\ retErr[1].name = sp.Name
          /\ retErr[1].msg = "failed to download"
          /\ sp.SHA256 \notin cache[1]

\* C6 witness: two providers, the first failing with a digest mismatch and
\* the second failing too.
C6_Witness ==
    /\ AllProvidersFailed
    /\ Len(tried) >= 2
    /\ tried[1].err = "DigestMismatch"

\* C7 as stated: a failed installed check for a missing identity makes
\* Download return an error before any cache check or fetch for the spec.
C7_Original ==
    ("IsInstalled:noidentity" \in ops) =>
        /\ pc = "done"
        /\ retErr # Nil
        /\ ops = {"IsInstalled:noidentity"}

\* C7 amended: the driver reports a missing identity as an error, never as
\* "not installed"; Download treats that error as "not installed": it goes
\* on to the cache check for the spec and returns no error because of it.
C7_MissingIdentityTreatedAsNotInstalled ==
    /\ (distro \in {"debian", "ubuntu"} /\ sp.Dpkg = Nil) =>
          ops \cap {"IsInstalled:true", "IsInstalled:false", "IsInstalled:err"} = {}
    /\ (distro = "alpine" /\ sp.APK = Nil) =>
          ops \cap {"IsInstalled:true", "IsInstalled:false", "IsInstalled:err"} = {}
    /\ ("IsInstalled:noidentity" \in ops) =>
          /\ opts.SkipInstalled
          /\ sp.Name \notin skipped
          /\ \/ pc = "cached"
             \/ ops \cap {"Cached:true", "Cached:false", "Cached:err"} # {}
          /\ retErr # Nil =>
                retErr[1].msg \in {"failed to download", "failed to determine the URL"}

\* C7 witness: the installed check failed for a missing identity and the
\* spec was then fetched and returned.
C7_Witness ==
    /\ "IsInstalled:noidentity" \in ops
    /\ "Ensure" \in ops
    /\ pc = "done" /\ retRes # Nil /\ sp \in Range(retRes[1])

\* C8: with no provider in effect Download has returned an error without
\* any call to the driver's installed check or to the cache; with
\* opts.Providers non-empty only those providers are in effect.
C8_EmptyProviderListIsRejectedFirst ==
    /\ (/\ pc # "start" /\ distro # "nil" /\ cache # Nil
        /\ Len(opts.Providers) = 0 /\ Len(DefaultProviders(distro)) = 0) =>
          /\ pc = "done"
          /\ retErr = Error("provider needs to be specified", 0, 0)
          /\ retRes = Nil
          /\ touched = {} /\ ops = {} /\ tried = <<>>
          /\ enumRuns = 0 /\ dInstalled = Nil
    /\ (Len(opts.Providers) > 0) =>
          /\ providers \in {<<>>, opts.Providers}
          /\ \A k \in DOMAIN tried : tried[k].provider \in Range(opts.Providers)
          /\ u # Nil => u[1] \in Range(opts.Providers)

\* C8 witness: the null driver, no provider option, files requested with
\* skipInstalled set, and Download has returned.
C8_Witness ==
    /\ distro = "none" /\ opts.Providers = <<>> /\ cache # Nil
    /\ names # {} /\ opts.SkipInstalled
    /\ pc = "done"

\* C9 as stated: the enumeration is run at most once on a driver instance,
\* whatever its outcome, and the snapshot is never modified once set.
C9_Original ==
    [][/\ enumRuns' <= 1
       /\ dInstalled # Nil => dInstalled' = dInstalled]_vars

\* C9 amended: the enumeration is run only by a call that finds no
\* snapshot stored (d.installed nil), so a run that fails and stores
\* nothing is repeated by the next call; once a snapshot is stored, an
\* empty or a partial one included, the enumeration is never run again and
\* the snapshot is never modified.
C9_EnumerationOnlyWhileNil ==
    [][/\ enumRuns' # enumRuns => (dInstalled = Nil /\ enumRuns' = enumRuns + 1)
       /\ dInstalled # Nil => dInstalled' = dInstalled]_vars

\* C9 witness: two calls ran the enumeration (the first left no snapshot),
\* and a third call was answered from the stored snapshot.
C9_Witness ==
    /\ calls = 3
    /\ enumRuns = 2
    /\ dInstalled # Nil
    /\ ~lastCall.enumerated
    /\ lastCall.err = ""

\* C10: when generateHash returns successfully and two index entries have
\* the same (package, architecture) key and different versions, the
\* manifest holds the entry of the higher version and not the entry of the
\* lower one, whichever comes first.
C10_OnlyHighestVersion ==
    (genRet = "ok") =>
        \A a, b \in DOMAIN paragraphs :
            (/\ a # b
             /\ SeenKey(paragraphs[a]) = SeenKey(paragraphs[b])
             /\ paragraphs[a].hasFilename /\ paragraphs[a].hasSHA256
             /\ paragraphs[b].hasFilename /\ paragraphs[b].hasSHA256
             /\ VersionParse(paragraphs[a].Version) # Nil
             /\ VersionParse(paragraphs[b].Version) # Nil
             /\ VersionCompare(VersionParse(paragraphs[a].Version),
                               VersionParse(paragraphs[b].Version)) < 0) =>
                /\ <<SHA256(paragraphs[b]), Filename(paragraphs[b])>> \in Range(manifest)
                /\ <<SHA256(paragraphs[a]), Filename(paragraphs[a])>> \notin Range(manifest)

\* ------------------------------------------------ order and termination
InIteration == pc \in {"installed", "cached", "url", "ensure"}

StrictlyAscending(q) == \A a, b \in DOMAIN q : a < b => q[a] < q[b]

\* The keys whose iteration has been completed, and those begun.
KeysCompleted == {fnames[k] : k \in {x \in DOMAIN fnames : x < i}}

KeysBegun == {fnames[k] : k \in {x \in DOMAIN fnames : x <= i}}

\* C14: whatever order the map yields its keys in, Download walks them in
\* ascending order of filename: the key list is the sorted key set, the
\* spec being processed is the one at the current position, every driver
\* and cache operation made so far belongs to a completed key or to the
\* current one, every completed key has had its operations, and the result
\* list is in ascending order of filename.
C14_AscendingOneAtATime ==
    /\ fnames \in {<<>>, SortedSeq(names)}
    /\ (InIteration \/ pc = "loop" \/ (pc = "done" /\ retErr = Nil))
            => fnames = SortedSeq(names)
    /\ StrictlyAscending(fnames)
    /\ (InIteration => sp.Name = fnames[i])
    /\ KeysCompleted \subseteq touched
    /\ touched \subseteq KeysBegun
    /\ StrictlyAscending([k \in DOMAIN res |-> res[k].Name])

C14_Witness ==
    /\ pc = "done"
    /\ retErr = Nil
    /\ Len(fnames) = MaxFiles
    /\ Len(res) = MaxFiles
    /\ touched = names

\* What remains to be done, as a number that every step of Download
\* lowers: PerSpec bounds the steps of one iteration.
PerSpec(n) == 2 * n + 3

Measure ==
    LET L == Len(providers)
        rest == (Len(fnames) - i) * PerSpec(L) + 1
    IN  CASE pc = "start" -> (Cardinality(names) + 1) * PerSpec(MaxProviders + 3) + 2
          [] pc = "loop" -> rest + PerSpec(L)
          [] pc = "installed" -> rest + PerSpec(L) - 1
          [] pc = "cached" -> rest + PerSpec(L) - 2
          [] pc = "url" -> rest + 2 * (L - j) + 2
          [] pc = "ensure" -> rest + 2 * (L - j) + 1
          [] OTHER -> 0

\* C15: Download terminates: until it has returned it can take a step, and
\* every step lowers a natural-number measure.  The k-th Ensure call for a
\* file spec is on the k-th entry of the provider list, so no entry is
\* tried twice, and the number of Ensure calls never exceeds the number of
\* specs times the number of providers.
C15_TerminatesWithBoundedFetches ==
    /\ [](pc # "done" => ENABLED Next)
    /\ [][/\ Measure' < Measure
          /\ Measure' >= 0
          /\ Len(tried') <= Len(providers')
          /\ \A k \in DOMAIN tried' : tried'[k].provider = providers'[k]
          /\ \A a, b \in DOMAIN tried' : a # b => tried'[a].provider # tried'[b].provider
          /\ nEnsure' <= Cardinality(names') * Len(providers')]_vars

C15_Witness ==
    /\ pc = "done"
    /\ MaxFiles > 1 /\ MaxProviders > 1
    /\ nEnsure = MaxFiles * MaxProviders

\* The providers whose URL embeds credentials.
CredentialProviders == {1}

\* C19: every mention of a credential-bearing provider in a status line,
\* a warning or a returned error is in the redacted form.
C19_OnlyRedactedMentions ==
    \A m \in emitted : m.provider \in CredentialProviders => m.form = "redacted"

\* ---------------------------------------------------------------- dedupe
\* The entry is in the prior manifest with the identical digest.
InPriorManifest(e) ==
    /\ oldSums # Nil
    /\ e.filename \in DOMAIN oldSums[1]
    /\ oldSums[1][e.filename] = e.sha256sum

NotInPriorManifest(e) == ~InPriorManifest(e)

\* The hw calls whose outcome is settled: all those made, but for one whose
\* write failed.
EntriesHandled == SubSeq(entries, 1, IF hgRet = "error" THEN hpos - 1 ELSE hpos)

\* C11: the output is the sequence of the driver's entries, in the order
\* produced, without exactly those entries whose filename the prior
\* manifest maps to the identical digest.
C11_DedupeSuppressesExactlyUnchanged ==
    written = SelectSeq(EntriesHandled, NotInPriorManifest)

C11_Witness ==
    /\ hgRet = "ok"
    /\ oldSums # Nil
    /\ Len(entries) = MaxEntries
    /\ InPriorManifest(entries[1])
    /\ entries[2].filename \in DOMAIN oldSums[1]
    /\ written = <<entries[2]>>

\* ------------------------------------------------------ the none driver
NotImplementedOps == {"GenerateHash", "PackageName", "InstallPackages", "GenerateDockerfile"}

\* C12 as stated: every capability but the installed check answers "not
\* implemented" for every input.
C12_Original ==
    /\ noneLast.op \in NotImplementedOps => noneLast.err = ErrNotImplemented
    /\ noneLast.op = "IsPackageVersionInstalled"
            => noneLast.val = <<FALSE>> /\ noneLast.err = ""

\* C12: the none driver answers GenerateHash, PackageName and
\* GenerateDockerfile with "not implemented" for every input, and
\* InstallPackages with "not implemented" for every non-empty list and
\* with success for an empty list; IsPackageVersionInstalled returns
\* false without error for every file spec.
C12_NotImplementedButEmptyInstall ==
    /\ noneLast.op \in NotImplementedOps \ {"InstallPackages"}
            => noneLast.err = ErrNotImplemented
    /\ noneLast.op = "InstallPackages"
            => noneLast.err = (IF Len(noneLast.arg) = 0 THEN "" ELSE ErrNotImplemented)
    /\ noneLast.op = "IsPackageVersionInstalled"
            => noneLast.val = <<FALSE>> /\ noneLast.err = ""

C12_Witness ==
    /\ noneLast.op = "InstallPackages"
    /\ noneLast.arg = <<>>
    /\ noneLast.err = ""

\* ------------------------------------------------------ InstallPackages
AllResident == \A n \in DOMAIN pkgs : pkgs[n].SHA256 \in instBlobs

\* C13: on an empty list InstallPackages returns nil without starting the
\* package manager; the package manager is started only after every
\* spec's digest has been resolved to a blob of the cache; and when some
\* digest has no blob in the cache the call fails and the package manager
\* is never started.
C13_ResolveAllBeforeInstaller ==
    /\ (Len(pkgs) = 0 /\ instPc = "done") => (instRet = "ok" /\ ~started)
    /\ started => (/\ Len(pkgs) > 0
                   /\ args = [n \in DOMAIN pkgs |-> pkgs[n].SHA256]
                   /\ AllResident)
    /\ ~AllResident => ~started
    /\ (~AllResident /\ instPc = "done") => instRet = "error"

C13_Witness ==
    /\ instPc = "done"
    /\ instRet = "error"
    /\ ~started
    /\ Len(pkgs) = MaxFiles
    /\ pkgs[1].SHA256 \in instBlobs
    /\ pkgs[MaxFiles].SHA256 \notin instBlobs
    /\ Len(args) = MaxFiles - 1

\* -------------------------------------------------- alpine GenerateHash
\* C17: the entries of the manifest are in ascending order of filename.
C17_ManifestSortedByFilename ==
    \A a, b \in DOMAIN apkManifest :
        a < b => apkManifest[a].filename <= apkManifest[b].filename

NotHTTPS(n) == apkUrls[n] \in PackageURLs /\ apkUrls[n].scheme # "https"

\* C18: for a line whose URL is not https, neither SHA256ByOriginURL nor
\* ImportWithURL is called and no entry is written, the generation never
\* gets past that line, and it does not return success.
C18_NonHTTPSRejectedFirst ==
    \A n \in DOMAIN apkUrls :
        NotHTTPS(n) =>
            /\ n \notin lookedUp
            /\ n \notin imported
            /\ n \notin wrote
            /\ apos <= n
            /\ apkRet # "ok"

C18_Witness ==
    /\ apkRet = "error"
    /\ Len(apkUrls) = 2
    /\ apos = 2
    /\ NotHTTPS(2)
    /\ apkUrls[2].fname # NoFilename
    /\ apkUrls[2] \in DOMAIN apkCache[1]
    /\ wrote = {1}
    /\ lookedUp = {1}

\* C20: a step that consults the origin-URL index for a line imports the
\* URL only if the index has no record of it, and otherwise either writes
\* the recorded digest without an import or fails; hence a generation that
\* follows a successful one on the same packages and cache imports
\* nothing and, when it succeeds, writes the same manifest.
C20_IndexAnswersWithoutImport ==
    [][/\ \A n \in lookedUp' \ lookedUp :
            LET url == apkUrls[n]
            IN  /\ n \in imported' => url \notin DOMAIN apkCache[1]
                /\ n \notin imported' =>
                      \/ apkRet' = "error"
                      \/ /\ url \in DOMAIN apkCache[1]
                         /\ apkCache' = apkCache
                         /\ apkManifest' =
                              Append(apkManifest, Entry(apkCache[1][url], url.fname))
       /\ imported' \subseteq lookedUp'
       /\ (run' = 2 /\ firstRun'[1].ret = "ok") =>
              /\ imported' = {}
              /\ apkRet' = "ok" => apkManifest' = firstRun'[1].manifest]_vars

C20_Witness ==
    /\ run = 2
    /\ firstRun[1].ret = "ok"
    /\ Len(firstRun[1].manifest) = 2
    /\ apkRet = "ok"
    /\ lookedUp = {1, 2}
    /\ imported = {}
    /\ apkManifest = firstRun[1].manifest
    /\ apkManifest[1].sha256sum # apkManifest[2].sha256sum

\* ------------------------------------- blocking operations and the context
\* C16: a provider fetch, an installed-package enumeration or an import
\* that returns after the context was cancelled has been aborted, and a
\* fetch that returns after the cancellation has committed no blob.
C16_BlockingOpsAbortOnCancel ==
    \A n \in DOMAIN oplog :
        (/\ oplog[n].cancelled
         /\ oplog[n].op \in {"cache.Ensure", "debian.Installed",
                             "alpine.Installed", "cache.ImportWithURL"})
            => (oplog[n].outcome = "aborted" /\ ~oplog[n].blob)

\* ------------------------------------------- calls on a driver instance
\* C23: on a debian driver, the call that follows a failed enumeration
\* either fails or runs the enumeration anew; it never returns a result
\* without error from what the failed enumeration had read.
C23_NoAnswerFromPartialSnapshot ==
    [][(/\ distro \in {"debian", "ubuntu"}
        /\ lastCall.enumerated
        /\ lastCall.err # ""
        /\ calls' = calls + 1)
            => (lastCall'.err # "" \/ lastCall'.enumerated)]_vars

\* ------------------------------------------------- the result of Download
\* C21: when Download has returned successfully, the digest of every file
\* spec in the result list has a blob in the cache, so that BlobAbsPath,
\* which InstallPackages calls for each spec, fails for none of them.
C21_ResultIsCacheResident ==
    (pc = "done" /\ retErr = Nil) =>
        \A n \in DOMAIN res :
            /\ res[n].SHA256 \in cache[1]
            /\ ~ResolveFailed(BlobAbsPath(cache[1], res[n].SHA256))

C21_Witness ==
    /\ pc = "done"
    /\ retErr = Nil
    /\ Len(res) = MaxFiles
    /\ nEnsure >= 1
    /\ nEnsure < MaxFiles

\* ------------------------------------------------ two Downloads in a row
\* C22 as stated: the second Download makes no Ensure call and, once it
\* has returned, has succeeded with the result list of the first.
C22_Original ==
    runNo = 2 =>
        /\ nEnsure = 0
        /\ pc = "done" => (retErr = Nil /\ res = first[1].res)

\* C22: in a Download that follows a successful one with the same file
\* specs, options and cache, the digests of the first result stay in the
\* cache; the provider loop is entered for a spec of the first result only
\* after the cache check for it has failed; and when the second Download
\* succeeds having skipped the same specs as installed, it returns the
\* same result list in the same order.
C22_SecondDownloadFindsCached ==
    runNo = 2 =>
        /\ \A n \in DOMAIN first[1].res : first[1].res[n].SHA256 \in cache[1]
        /\ (pc \in {"url", "ensure"} /\ sp \in Range(first[1].res))
                => "Cached:err" \in ops
        /\ (pc = "done" /\ retErr = Nil /\ skipped = first[1].skipped)
                => res = first[1].res

C22_Witness ==
    /\ runNo = 2
    /\ pc = "done"
    /\ retErr = Nil
    /\ nEnsure = 0
    /\ Len(res) = MaxFiles
    /\ res = first[1].res
====
